---- MODULE Spec2Model ----
(***************************************************************************)
(* A model of the scene-conversion scripts of the renderer repository:     *)
(*   - the OBJ parse loops of convertmonkey.py, make_bunny_scene.py,       *)
(*     make_dragon_scene.py and make_bunnyetc_scene.py, followed by the    *)
(*     single write of the output document;                                *)
(*   - scenes/scene_from_blend.py: camera derivation, object assembly,     *)
(*     output file name selection and the vector compaction pass.          *)
(* Every script is straight-line code; each part is a specification of its *)
(* own over the shared variables.                                          *)
(***************************************************************************)
EXTENDS Integers, Sequences, FiniteSets, TLC

VARIABLES
    pc,            \* position of the running script
    err,           \* "" or the exception that ended the script
    script,        \* which of the parse scripts runs
    fileIdx,       \* index of the OBJ file whose parse loop is running
    nRead,         \* number of lines read so far, over all files of the run
    tokens,        \* line.split() of the last line read
    vertices,      \* the vertex list of the running parse loop
    indices,       \* the face list of the running parse loop
    vlines,        \* history: the "v" records read by the running loop (tag, first 3 arguments)
    flines,        \* history: the "f" records read by the running loop (tag, first 3 arguments)
    objects,       \* the "objects" map of the scene under construction
    written,       \* the paths this run opened for writing
    location,      \* scene.camera.location
    camera_quat,   \* scene.camera.rotation_quaternion
    origin,        \* camera origin of the scene document
    look_at,       \* camera look_at of the scene document
    up,            \* camera up of the scene document
    meshes,        \* the renderable meshes of bpy.data.objects, in order
    meshIdx,       \* number of meshes the assembly loop has handled
    disk,          \* the candidate output paths that exist on disk
    output_name,   \* base name of the output document
    output_filename, \* the path chosen for the output document
    i,             \* loop variable of the file name loop
    overwrote,     \* TRUE iff the write truncated a file that existed
    scene_dict,    \* the document handed to json.dumps (its vector values)
    scene_string   \* the text of the scene document

parseVars == <<script, fileIdx, nRead, tokens, vertices, indices, vlines, flines>>
camVars   == <<location, camera_quat, origin, look_at, up>>
asmVars   == <<meshes, meshIdx>>
outVars   == <<disk, output_name, output_filename, i, overwrote>>
txtVars   == <<scene_dict, scene_string>>
vars == <<pc, err, objects, written, parseVars, camVars, asmVars, outVars, txtVars>>

NoVec == <<>>

(***************************************************************************)
(* Bounds of the model.                                                    *)
(***************************************************************************)
MaxLines == 2      \* lines read in one run, over all OBJ files

(***************************************************************************)
(* Tokens.  A line is modelled by the result of line.split(): a sequence   *)
(* of tokens.  "1" and "2" are decimal integers, "x" is a token that is    *)
(* neither an integer nor a float (like "1/2/3" or "abc").                 *)
(***************************************************************************)
Min(a, b) == IF a < b THEN a ELSE b

ArgTok == {"1", "2", "x"}

int_ok(tok) == tok \in {"1", "2"}

int(tok) == CASE tok = "1" -> 1 [] tok = "2" -> 2

float_ok(tok) == tok \in {"1", "2"}

float(tok) == CASE tok = "1" -> 1 [] tok = "2" -> 2

\* The tokens the model puts after the third argument of a record.
ExtraTok == {"2", "x"}

\* The end of the slice tokens[1:4] that the "f" branch reads; the "v" branch
\* reads tokens[1], tokens[2], tokens[3].
SliceStop == 4

\* The arguments of a record: none to three tokens over ArgTok (all a record
\* reads), and three of them followed by one token that no branch reads.
Args ==
    UNION {[1..n -> ArgTok] : n \in 0..(SliceStop - 1)}
        \cup {Append(a, e) : a \in [1..(SliceStop - 1) -> ArgTok], e \in ExtraTok}

\* The lines an OBJ file can hold: a blank line, records of other kinds, and
\* "v" and "f" records with any arguments.
Lines ==
    {<<>>, <<"#">>, <<"vn", "1", "2", "1">>, <<"g", "x">>}
        \cup {<<"v">> \o a : a \in Args}
        \cup {<<"f">> \o a : a \in Args}

\* Python's tokens[1:4]: a slice never fails, it is cut at the end of the list.
Slice1to4(toks) == SubSeq(toks, 2, Min(SliceStop, Len(toks)))

(***************************************************************************)
(* The scripts and their OBJ files, object names and output documents.     *)
(***************************************************************************)
Scripts == {"convertmonkey", "make_bunny_scene", "make_dragon_scene",
            "make_bunnyetc_scene"}

ObjFiles(s) ==
    CASE s = "convertmonkey"       -> <<"monkey.obj">>
      [] s = "make_bunny_scene"    -> <<"bunny.obj">>
      [] s = "make_dragon_scene"   -> <<"dragon.obj">>
      [] s = "make_bunnyetc_scene" -> <<"bunnyetc-bunny.obj", "bunnyetc-monkey.obj",
                                        "bunnyetc-teapot.obj">>

ObjectNames(s) ==
    CASE s = "convertmonkey"       -> <<>>
      [] s = "make_bunny_scene"    -> <<"bunny">>
      [] s = "make_dragon_scene"   -> <<"dragon">>
      [] s = "make_bunnyetc_scene" -> <<"bunny", "monkey", "teapot">>

OutputFile(s) ==
    CASE s = "convertmonkey"       -> "monkeyverts.json"
      [] s = "make_bunny_scene"    -> "bunny.json"
      [] s = "make_dragon_scene"   -> "dragon.json"
      [] s = "make_bunnyetc_scene" -> "bunnyetc.json"

\* The hard-coded floor mesh of the scene scripts.
Floor ==
    [vertices |-> << <<-10, 0, -10>>, <<10, 0, -10>>, <<10, 0, 10>>, <<-10, 0, 10>> >>,
     indices  |-> << <<0, 1, 2>>, <<0, 2, 3>> >>]

InitialObjects(s) ==
    IF s = "convertmonkey" THEN <<>> ELSE [n \in {"floor"} |-> Floor]

\* d[key] = value on a Python dict: a new key is added, an existing key is
\* silently overwritten.
DictSet(d, key, value) ==
    [k \in (DOMAIN d) \cup {key} |-> IF k = key THEN value ELSE d[k]]

(***************************************************************************)
(* One iteration of the parse loop.                                        *)
(***************************************************************************)
\* The exception raised by the "v" branch, "" if none: the three coordinates
\* are evaluated left to right, tokens[k] before float(tokens[k]).
VertexError(toks) ==
    IF Len(toks) < 2 THEN "IndexError"
    ELSE IF ~float_ok(toks[2]) THEN "ValueError"
    ELSE IF Len(toks) < 3 THEN "IndexError"
    ELSE IF ~float_ok(toks[3]) THEN "ValueError"
    ELSE IF Len(toks) < 4 THEN "IndexError"
    ELSE IF ~float_ok(toks[4]) THEN "ValueError"
    ELSE ""

VertexOf(toks) == <<0 - float(toks[2]), float(toks[3]), float(toks[4])>>

\* The exception raised by the "f" branch, "" if none.
FaceError(toks) ==
    IF \E k \in 1..Len(Slice1to4(toks)) : ~int_ok(Slice1to4(toks)[k])
    THEN "ValueError" ELSE ""

\* The face without the conversion to 0-based indices.
FaceOfShifted(toks) == [k \in 1..Len(Slice1to4(toks)) |-> int(Slice1to4(toks)[k])]

FaceOf(toks) == [k \in 1..Len(Slice1to4(toks)) |-> int(Slice1to4(toks)[k]) - 1]

\* The exception one loop iteration raises on the split line toks, "" if none.
LineError(toks) ==
    IF toks = <<>> THEN "IndexError"
    ELSE IF toks[1] = "v" THEN VertexError(toks)
    ELSE IF toks[1] = "f" THEN FaceError(toks)
    ELSE ""

\* What the history keeps of a record: its tag and its first three arguments.
Record(toks) == SubSeq(toks, 1, Min(SliceStop, Len(toks)))

InitOther ==
    /\ location = NoVec /\ camera_quat = NoVec
    /\ origin = NoVec /\ look_at = NoVec /\ up = NoVec
    /\ meshes = <<>> /\ meshIdx = 0
    /\ disk = {} /\ output_name = "" /\ output_filename = "" /\ i = 0
    /\ overwrote = FALSE
    /\ scene_dict = <<>> /\ scene_string = <<>>

InitParse ==
    /\ script \in Scripts
    /\ pc = "parse"
    /\ err = ""
    /\ fileIdx = 1
    /\ nRead = 0
    /\ tokens = <<>>
    /\ vertices = <<>>
    /\ indices = <<>>
    /\ vlines = <<>>
    /\ flines = <<>>
    /\ objects = InitialObjects(script)
    /\ written = {}
    /\ InitOther

\* for line in file: tokens = line.split(); the "v" / "f" dispatch.
ParseLine ==
    /\ pc = "parse"
    /\ nRead < MaxLines
    /\ \E line \in Lines :
        /\ tokens' = line
        /\ nRead' = nRead + 1
        /\ vlines' = IF line # <<>> /\ line[1] = "v"
                     THEN Append(vlines, Record(line)) ELSE vlines
        /\ flines' = IF line # <<>> /\ line[1] = "f"
                     THEN Append(flines, Record(line)) ELSE flines
        /\ IF LineError(line) # ""
           THEN /\ pc' = "error"
                /\ err' = LineError(line)
                /\ UNCHANGED <<vertices, indices>>
           ELSE /\ UNCHANGED <<pc, err>>
                /\ vertices' = IF line[1] = "v" THEN Append(vertices, VertexOf(line))
                               ELSE vertices
                /\ indices' = IF line[1] = "f" THEN Append(indices, FaceOf(line))
                              ELSE indices
    /\ UNCHANGED <<script, fileIdx, objects, written, camVars, asmVars, outVars, txtVars>>

\* The file is exhausted: the for loop and the with block end.  tokens is
\* not read after the loop; the model forgets it.
EndLoop ==
    /\ pc = "parse"
    /\ pc' = IF script = "convertmonkey" THEN "write" ELSE "assemble"
    /\ tokens' = <<>>
    /\ UNCHANGED <<err, objects, written, script, fileIdx, nRead, vertices, indices,
                   vlines, flines, camVars, asmVars, outVars, txtVars>>

\* scene["objects"][name] = {...vertices, indices...}, then the lists of the
\* next OBJ file, if any, are created empty.
Assemble ==
    /\ pc = "assemble"
    /\ objects' = DictSet(objects, ObjectNames(script)[fileIdx],
                          [vertices |-> vertices, indices |-> indices])
    /\ IF fileIdx < Len(ObjFiles(script))
       THEN /\ fileIdx' = fileIdx + 1
            /\ vertices' = <<>> /\ indices' = <<>>
            /\ vlines' = <<>> /\ flines' = <<>>
            /\ pc' = "parse"
       ELSE /\ pc' = "write"
            /\ UNCHANGED <<fileIdx, vertices, indices, vlines, flines>>
    /\ UNCHANGED <<err, script, nRead, tokens, written, camVars, asmVars, outVars, txtVars>>

\* An output document opened while a parse loop may still be running.
MayWriteEarly(p) == p \in {"parse", "write"}

\* The position at which the output document is opened for writing.
MayWrite(p) == p = "write"

\* with open(<output>, "w") as output: json.dump(...)
Write ==
    /\ MayWrite(pc)
    /\ written' = written \cup {OutputFile(script)}
    /\ pc' = "done"
    /\ UNCHANGED <<err, objects, parseVars, camVars, asmVars, outVars, txtVars>>

NextParse == ParseLine \/ EndLoop \/ Assemble \/ Write

SpecParse == InitParse /\ [][NextParse]_vars

(***************************************************************************)
(* Claims about the parse loops, checked under SpecParse.                  *)
(***************************************************************************)
\* The last parse loop has run to its end (its lists are still in place).
LoopEnded == pc \in {"assemble", "write", "done"}

\* A line was read in this step.
ReadStep == pc = "parse" /\ nRead' = nRead + 1

Unrecognized(toks) == toks = <<>> \/ toks[1] \notin {"v", "f"}

\* A recognized record with fewer than three arguments, or with one of its
\* first three arguments not numeric.
Malformed(toks) ==
    /\ toks # <<>>
    /\ toks[1] \in {"v", "f"}
    /\ \/ Len(toks) < SliceStop
       \/ \E k \in 2..SliceStop :
            IF toks[1] = "v" THEN ~float_ok(toks[k]) ELSE ~int_ok(toks[k])

InRange(face, n) == \A j \in 1..Len(face) : face[j] \in 0..(n - 1)

\* C1 (as stated): when a parse loop has ended on an input with N "v" records
\* and M "f" records, it holds exactly N vertices and M faces, and every index
\* of every face lies in [0, N).
C1_RoundTripIndexing ==
    LoopEnded =>
        /\ Len(vertices) = Len(vlines)
        /\ Len(indices) = Len(flines)
        /\ \A k \in 1..Len(indices) : InRange(indices[k], Len(vlines))

\* C1 (amended): as long as the parse has not aborted, the vertex list has one
\* entry per "v" record read and the face list one entry per "f" record read,
\* in input order; each face index is the integer of its token minus 1, so it
\* lies in [0, N) exactly when the token lies in [1, N] - nothing checks it.
C1_CountsAndOrder ==
    pc # "error" =>
        /\ Len(vertices) = Len(vlines)
        /\ Len(indices) = Len(flines)
        /\ \A k \in 1..Len(vertices) :
              /\ Len(vertices[k]) = 3
              /\ vertices[k][1] + float(vlines[k][2]) = 0
              /\ vertices[k][2] = float(vlines[k][3])
              /\ vertices[k][3] = float(vlines[k][4])
        /\ \A k \in 1..Len(indices) :
              /\ Len(indices[k]) = Len(flines[k]) - 1
              /\ \A j \in 1..Len(indices[k]) :
                    /\ indices[k][j] + 1 = int(flines[k][j + 1])
                    /\ (indices[k][j] \in 0..(Len(vlines) - 1))
                          <=> (int(flines[k][j + 1]) \in 1..Len(vlines))

\* C1 witness: a loop ended with a vertex and a face, and the face has an
\* index outside [0, N).
C1_Witness ==
    /\ LoopEnded
    /\ Len(vertices) = 1
    /\ Len(indices) = 1
    /\ indices[1] # <<>>
    /\ ~InRange(indices[1], Len(vertices))

\* C2 (as stated): every face in the face list has exactly 3 indices, the
\* first three tokens after "f", each decreased by 1.
C2_FacesHaveThreeIndices ==
    \A k \in 1..Len(indices) :
        /\ Len(indices[k]) = 3
        /\ \A j \in 1..3 : indices[k][j] = int(flines[k][j + 1]) - 1

\* C3 (as stated): a step that reads a blank line or a line whose first token
\* is neither "v" nor "f" raises no error and leaves both lists unchanged.
C3_UnrecognizedLinesSkipped ==
    [][(ReadStep /\ Unrecognized(tokens'))
         => (pc' = "parse" /\ err' = "" /\ vertices' = vertices /\ indices' = indices)]_vars

\* C4 (as stated): a step that reads a recognized record with too few tokens
\* or with a non-numeric token among those it needs fails with an error and
\* appends nothing.
C4_MalformedRecordsFail ==
    [][(ReadStep /\ Malformed(tokens'))
         => (pc' = "error" /\ err' # "" /\ vertices' = vertices /\ indices' = indices)]_vars

MaxCoord == 1      \* camera location and quaternion components lie in -MaxCoord..MaxCoord

Coords == (0 - MaxCoord)..MaxCoord

xzy_to_xyz(values) == <<values[1], values[3], values[2]>>

add_vec(a, b) == [k \in 1..Min(Len(a), Len(b)) |-> a[k] + b[k]]

multiply_quats(a, b) ==
    << a[1] * b[1] - a[2] * b[2] - a[3] * b[3] - a[4] * b[4],
       a[1] * b[2] + a[2] * b[1] - a[3] * b[4] + a[4] * b[3],
       a[1] * b[3] + a[2] * b[4] + a[3] * b[1] - a[4] * b[2],
       a[1] * b[4] - a[2] * b[3] + a[3] * b[2] + a[4] * b[1] >>

\* rotated[:3] in place of rotated[-3:]
rotate_quat_head(vec, quat) ==
    SubSeq(multiply_quats(<<quat[1], 0 - quat[2], 0 - quat[3], 0 - quat[4]>>,
                          multiply_quats(<<0>> \o vec, quat)), 1, 3)

rotate_quat(vec, quat) ==
    SubSeq(multiply_quats(<<quat[1], 0 - quat[2], 0 - quat[3], 0 - quat[4]>>,
                          multiply_quats(<<0>> \o vec, quat)), 2, 4)

InitParseIdle ==
    /\ script = "" /\ fileIdx = 0 /\ nRead = 0 /\ tokens = <<>>
    /\ vertices = <<>> /\ indices = <<>> /\ vlines = <<>> /\ flines = <<>>

InitCamera ==
    /\ pc = "origin"
    /\ err = ""
    /\ objects = <<>>
    /\ written = {}
    /\ InitParseIdle
    /\ location \in [1..3 -> Coords]
    /\ camera_quat \in [1..4 -> Coords]
    /\ origin = NoVec /\ look_at = NoVec /\ up = NoVec
    /\ meshes = <<>> /\ meshIdx = 0
    /\ disk = {} /\ output_name = "" /\ output_filename = "" /\ i = 0
    /\ overwrote = FALSE
    /\ scene_dict = <<>> /\ scene_string = <<>>

\* origin = xzy_to_xyz(scene.camera.location[:3])
SetOrigin ==
    /\ pc = "origin"
    /\ origin' = xzy_to_xyz(location)
    /\ pc' = "look_at"
    /\ UNCHANGED <<err, objects, written, parseVars, location, camera_quat, look_at, up,
                   asmVars, outVars, txtVars>>

\* look_at = add_vec(origin, xzy_to_xyz(rotate_quat([0, 0, -1], camera_quat)))
SetLookAt ==
    /\ pc = "look_at"
    /\ look_at' = add_vec(origin, xzy_to_xyz(rotate_quat(<<0, 0, -1>>, camera_quat)))
    /\ pc' = "up"
    /\ UNCHANGED <<err, objects, written, parseVars, location, camera_quat, origin, up,
                   asmVars, outVars, txtVars>>

\* up = xzy_to_xyz(rotate_quat([0, 1, 0], camera_quat))
SetUp ==
    /\ pc = "up"
    /\ up' = xzy_to_xyz(rotate_quat(<<0, 1, 0>>, camera_quat))
    /\ pc' = "camera_done"
    /\ UNCHANGED <<err, objects, written, parseVars, location, camera_quat, origin, look_at,
                   asmVars, outVars, txtVars>>

NextCamera == SetOrigin \/ SetLookAt \/ SetUp

SpecCamera == InitCamera /\ [][NextCamera]_vars

IdentityQuat == <<1, 0, 0, 0>>

\* C5: for the identity quaternion and any camera location (x, y, z), the
\* derived camera has origin (x, z, y), look_at (x, z, y) + (0, -1, 0) and
\* up (0, 0, 1): the swap of the 2nd and 3rd components applied once to the
\* location, to the forward vector (0, 0, -1) and to the up vector (0, 1, 0).
C5_IdentityCamera ==
    (pc = "camera_done" /\ camera_quat = IdentityQuat) =>
        /\ origin = <<location[1], location[3], location[2]>>
        /\ look_at = <<location[1], location[3] - 1, location[2]>>
        /\ up = <<0, 0, 1>>

\* C5 witness: the camera is derived for the identity quaternion at a
\* location whose 2nd and 3rd components differ.
C5_Witness ==
    /\ pc = "camera_done"
    /\ camera_quat = IdentityQuat
    /\ location = <<1, -1, 0>>
    /\ look_at = <<1, -1, -1>>

(***************************************************************************)
(* scenes/scene_from_blend.py: export and assembly of the objects.         *)
(***************************************************************************)
MaxObjects == 3    \* objects in bpy.data.objects

ObjNames == {"floor", "Cube"}

\* An object of bpy.data.objects: its name, its type, whether it is hidden
\* from rendering, and whether its first material has a "Diffuse BSDF" node.
BpyObjects == [name : ObjNames, type : {"MESH", "LIGHT"}, hide_render : BOOLEAN,
               diffuse : BOOLEAN]

\* meshes = [m for m in bpy.data.objects if m.type == "MESH" and not m.hide_render]
Renderable(objs) == SelectSeq(objs, LAMBDA m : m.type = "MESH" /\ ~m.hide_render)

ObjPath(name) == <<"objects/", name, ".obj">>

InitAssemble ==
    /\ pc = "export"
    /\ err = ""
    /\ objects = <<>>
    /\ written = {}
    /\ InitParseIdle
    /\ location = NoVec /\ camera_quat = NoVec
    /\ origin = NoVec /\ look_at = NoVec /\ up = NoVec
    /\ \E n \in 0..MaxObjects : \E objs \in [1..n -> BpyObjects] : meshes = Renderable(objs)
    /\ meshIdx = 0
    /\ disk = {} /\ output_name = "" /\ output_filename = "" /\ i = 0
    /\ overwrote = FALSE
    /\ scene_dict = <<>> /\ scene_string = <<>>

\* One iteration of "for mesh in meshes": the OBJ export, the colour lookup
\* and scene_dict["objects"][mesh.name] = {...}.
ExportMesh ==
    /\ pc = "export"
    /\ meshIdx < Len(meshes)
    /\ LET mesh == meshes[meshIdx + 1] IN
        /\ written' = written \cup {ObjPath(mesh.name)}
        /\ objects' = DictSet(objects, mesh.name,
                              [type |-> "mesh", file |-> ObjPath(mesh.name),
                               color |-> IF mesh.diffuse THEN "diffuse_node" ELSE "default"])
    /\ meshIdx' = meshIdx + 1
    /\ UNCHANGED <<pc, err, parseVars, camVars, meshes, outVars, txtVars>>

\* The loop over meshes is exhausted.
EndExport ==
    /\ pc = "export"
    /\ meshIdx = Len(meshes)
    /\ pc' = "assembled"
    /\ UNCHANGED <<err, objects, written, parseVars, camVars, asmVars, outVars, txtVars>>

NextAssemble == ExportMesh \/ EndExport

SpecAssemble == InitAssemble /\ [][NextAssemble]_vars

HasDuplicateNames(ms) ==
    \E a, b \in 1..Len(ms) : a # b /\ ms[a].name = ms[b].name

\* C9 (as stated): an assembly that ends without an error was given no two
\* objects of the same name, and its map has exactly one entry per object.
C9_DuplicateNamesRejected ==
    pc = "assembled" =>
        /\ ~HasDuplicateNames(meshes)
        /\ Cardinality(DOMAIN objects) = Len(meshes)

(***************************************************************************)
(* scenes/scene_from_blend.py: the output file name loop and the write.    *)
(***************************************************************************)
\* for i in range(1, 100)
RangeStop == 100

\* bpy.path.basename(bpy.data.filepath), as its stem and its extension: an
\* unsaved project has the empty name.
BlendNames == {<<>>, <<"scene", ".blend">>, <<"scene">>}

\* blend_name[:-6] if blend_name.endswith(".blend") else "untitled"
OutputName(blend_name) ==
    IF Len(blend_name) = 2 /\ blend_name[2] = ".blend" THEN blend_name[1] ELSE "untitled"

\* f"{output_name}.json" is candidate 0, f"{output_name}_{k}.json" candidate k.
Candidate(name, k) == [base |-> name, suffix |-> k]

\* A loop that moves on to f"{output_name}_{k + 1}.json".
NextNameSkipping(name, k) == Candidate(name, k + 1)

\* The name the loop moves on to in iteration k.
NextName(name, k) == Candidate(name, k)

\* The candidates that exist before the run: every candidate below some k,
\* and any of a few candidates above it.
Disks(name) ==
    UNION {{{Candidate(name, j) : j \in (0..(k - 1)) \cup extra} :
                extra \in SUBSET ({k + 1, RangeStop - 2, RangeStop - 1})} :
           k \in 0..RangeStop}

InitOut ==
    /\ pc = "name_loop"
    /\ err = ""
    /\ objects = <<>>
    /\ written = {}
    /\ InitParseIdle
    /\ location = NoVec /\ camera_quat = NoVec
    /\ origin = NoVec /\ look_at = NoVec /\ up = NoVec
    /\ meshes = <<>> /\ meshIdx = 0
    /\ \E bn \in BlendNames : output_name = OutputName(bn)
    /\ output_filename = Candidate(output_name, 0)
    /\ disk \in Disks(output_name)
    /\ i = 1
    /\ overwrote = FALSE
    /\ scene_dict = <<>> /\ scene_string = <<>>

\* One iteration of the loop: move on to the next name if the current one
\* exists, leave the loop otherwise.
NameLoopStep ==
    /\ pc = "name_loop"
    /\ i < RangeStop
    /\ IF output_filename \in disk
       THEN /\ output_filename' = NextName(output_name, i)
            /\ i' = i + 1
            /\ UNCHANGED pc
       ELSE /\ pc' = "named"
            /\ UNCHANGED <<output_filename, i>>
    /\ UNCHANGED <<err, objects, written, parseVars, camVars, asmVars, disk, output_name,
                   overwrote, txtVars>>

\* range(1, 100) is exhausted.
NameLoopEnd ==
    /\ pc = "name_loop"
    /\ i = RangeStop
    /\ pc' = "named"
    /\ UNCHANGED <<err, objects, written, parseVars, camVars, asmVars, outVars, txtVars>>

\* with open(output_filename, "w") as file: file.write(scene_string)
WriteScene ==
    /\ pc = "named"
    /\ overwrote' = (output_filename \in disk)
    /\ written' = written \cup {output_filename}
    /\ pc' = "out_done"
    /\ UNCHANGED <<err, objects, parseVars, camVars, asmVars, disk, output_name,
                   output_filename, i, txtVars>>

NextOut == NameLoopStep \/ NameLoopEnd \/ WriteScene

SpecOut == InitOut /\ [][NextOut]_vars

CandidateRange == 0..(RangeStop - 1)

FreeCandidates == {k \in CandidateRange : Candidate(output_name, k) \notin disk}

\* C8: when at least one of the candidates name.json, name_1.json, ...,
\* name_99.json does not exist, the path chosen and written is the first
\* candidate that does not exist, and the write truncates no existing file.
C8_FirstFreeCandidate ==
    (pc \in {"named", "out_done"} /\ FreeCandidates # {}) =>
        /\ \E k \in FreeCandidates :
              /\ output_filename = Candidate(output_name, k)
              /\ \A j \in FreeCandidates : k <= j
        /\ pc = "out_done" => (~overwrote /\ written = {output_filename})

\* C8 witness: the document was written to the last candidate, which the loop
\* never tests, with every earlier candidate existing.
C8_Witness ==
    /\ pc = "out_done"
    /\ FreeCandidates = {RangeStop - 1}
    /\ output_filename = Candidate(output_name, RangeStop - 1)
    /\ ~overwrote

(***************************************************************************)
(* scenes/scene_from_blend.py: json.dumps(indent=4) and the compaction     *)
(* pass.  A text is a sequence of characters; a dictionary key is kept as  *)
(* one element, since a JSON string holds no raw newline and so no part of *)
(* it can take part in a match.                                            *)
(***************************************************************************)
MaxEntries == 2    \* entries of the camera dictionary of the modelled document

\* json.dumps(scene_dict, indent=4)
Indent == 4

NL == "\n"

\* Number texts that json.dumps emits: ints (film dimensions, sample counts)
\* and floats, which repr prints with an exponent below 1e-4 and from 1e16.
IntTexts == {<<"7">>, <<"1", "6">>}

FloatTexts == {<<"-", "1", ".", "5">>, <<"1", "e", "-", "0", "5">>}

\* The entries of the document: a pair of ints, a triple of floats, or a
\* number that stands alone.
Entries ==
    {[key |-> "'film_dimensions'", list |-> TRUE, nums |-> n] : n \in [1..2 -> IntTexts]}
        \cup {[key |-> "'origin'", list |-> TRUE, nums |-> n] : n \in [1..3 -> FloatTexts]}
        \cup {[key |-> "'field_of_view'", list |-> FALSE, nums |-> n] :
                  n \in [1..1 -> FloatTexts]}

Docs == UNION {[1..n -> Entries] : n \in 1..MaxEntries}

Spaces(n) == [k \in 1..n |-> " "]

RECURSIVE Join(_, _)
\* The texts of parts, with sep between them.
Join(parts, sep) ==
    IF parts = <<>> THEN <<>>
    ELSE IF Len(parts) = 1 THEN parts[1]
    ELSE parts[1] \o sep \o Join(Tail(parts), sep)

\* A list of numbers at nesting level lvl as indent=4 prints it: one element
\* per line.
DumpList(nums, lvl) ==
    <<"[", NL>>
        \o Join([k \in 1..Len(nums) |-> Spaces(Indent * (lvl + 1)) \o nums[k]], <<",", NL>>)
        \o <<NL>> \o Spaces(Indent * lvl) \o <<"]">>

\* A list of numbers on one line: "[a, b, c]".
InlineList(nums) == <<"[">> \o Join(nums, <<",", " ">>) \o <<"]">>

DumpEntry(e, inline) ==
    Spaces(Indent * 2) \o <<e.key, ":", " ">>
        \o (IF ~e.list THEN e.nums[1]
            ELSE IF inline THEN InlineList(e.nums)
            ELSE DumpList(e.nums, 2))

\* The text of {"camera": {<entries>}}; with inline, the lists on one line.
DumpDoc(doc, inline) ==
    <<"{", NL>> \o Spaces(Indent) \o <<"'camera'", ":", " ", "{", NL>>
        \o Join([k \in 1..Len(doc) |-> DumpEntry(doc[k], inline)], <<",", NL>>)
        \o <<NL>> \o Spaces(Indent) \o <<"}", NL, "}">>

json_dumps(doc) == DumpDoc(doc, FALSE)

\* ---- the regular expressions ----
At(s, p) == IF p \in 1..Len(s) THEN s[p] ELSE ""

IsDigit(c) == c \in {"0", "1", "2", "3", "4", "5", "6", "7", "8", "9"}

RECURSIVE DigitsEnd(_, _)
\* [0-9]* from p: the index of the last digit of the run, p - 1 if there is none.
DigitsEnd(s, p) == IF IsDigit(At(s, p)) THEN DigitsEnd(s, p + 1) ELSE p - 1

RECURSIVE SkipSpaces(_, _)
\* " *" from p: the index of the first character that is no space.
SkipSpaces(s, p) == IF At(s, p) = " " THEN SkipSpaces(s, p + 1) ELSE p

\* -?[0-9]+(?:\.[0-9]+)? from p: the index of the last character of the
\* longest match, 0 if there is none.  In both patterns a number is followed
\* by "," or a newline, which no shorter match of it is, so only the longest
\* match can take part in a match of the pattern.
number_pattern(s, p) ==
    LET q == IF At(s, p) = "-" THEN p + 1 ELSE p
        d == DigitsEnd(s, q)
    IN  IF d < q THEN 0
        ELSE IF At(s, d + 1) = "." /\ DigitsEnd(s, d + 2) >= d + 2 THEN DigitsEnd(s, d + 2)
        ELSE d

NoMatch == [ok |-> FALSE, end |-> 0, groups |-> <<>>]

RECURSIVE ElemsFrom(_, _, _)
\* " *(number),\n" n - 1 times, then " *(number)\n *\]", from p.
ElemsFrom(s, p, n) ==
    LET q == SkipSpaces(s, p)
        e == number_pattern(s, q)
    IN  IF e = 0 THEN NoMatch
        ELSE IF n = 1
        THEN IF At(s, e + 1) = NL /\ At(s, SkipSpaces(s, e + 2)) = "]"
             THEN [ok |-> TRUE, end |-> SkipSpaces(s, e + 2), groups |-> <<SubSeq(s, q, e)>>]
             ELSE NoMatch
        ELSE IF At(s, e + 1) = "," /\ At(s, e + 2) = NL
        THEN LET r == ElemsFrom(s, e + 3, n - 1)
             IN  IF r.ok THEN [ok |-> TRUE, end |-> r.end,
                               groups |-> <<SubSeq(s, q, e)>> \o r.groups]
                 ELSE NoMatch
        ELSE NoMatch

\* "\[\n *({0}),\n *({0})\n *\]" matched at p.
double_pattern(s, p) ==
    IF At(s, p) = "[" /\ At(s, p + 1) = NL THEN ElemsFrom(s, p + 2, 2) ELSE NoMatch

\* "\[\n *({0}),\n *({0}),\n *({0})\n *\]" matched at p.
triple_pattern(s, p) ==
    IF At(s, p) = "[" /\ At(s, p + 1) = NL THEN ElemsFrom(s, p + 2, 3) ELSE NoMatch

\* A looser pair substitution: "({0}),\n *({0})" replaced by r"\1, \2".
sub_double_loose(s, p) ==
    LET e1 == number_pattern(s, p)
        q  == SkipSpaces(s, e1 + 3)
        e2 == number_pattern(s, q)
    IN  IF e1 # 0 /\ At(s, e1 + 1) = "," /\ At(s, e1 + 2) = NL /\ e2 # 0
        THEN [ok |-> TRUE, end |-> e2,
              out |-> SubSeq(s, p, e1) \o <<",", " ">> \o SubSeq(s, q, e2)]
        ELSE [ok |-> FALSE, end |-> 0, out |-> <<>>]

\* The substitution of double_pattern by r"[\1, \2]" at p.
sub_double(s, p) ==
    LET m == double_pattern(s, p)
    IN  [ok |-> m.ok, end |-> m.end, out |-> InlineList(m.groups)]

\* The substitution of triple_pattern by r"[\1, \2, \3]" at p.
sub_triple(s, p) ==
    LET m == triple_pattern(s, p)
    IN  [ok |-> m.ok, end |-> m.end, out |-> InlineList(m.groups)]

\* The least element of a non-empty set of integers.
Least(S) == CHOOSE q \in S : \A r \in S : q <= r

RECURSIVE SubDoubleFrom(_, _)
\* re.sub scans from left to right: the text up to the leftmost match at or
\* after p is kept, the match is replaced, and the scan goes on after it.
SubDoubleFrom(s, p) ==
    LET M == {q \in p..Len(s) : sub_double(s, q).ok}
    IN  IF M = {} THEN SubSeq(s, p, Len(s))
        ELSE SubSeq(s, p, Least(M) - 1) \o sub_double(s, Least(M)).out
                 \o SubDoubleFrom(s, sub_double(s, Least(M)).end + 1)

RECURSIVE SubTripleFrom(_, _)
SubTripleFrom(s, p) ==
    LET M == {q \in p..Len(s) : sub_triple(s, q).ok}
    IN  IF M = {} THEN SubSeq(s, p, Len(s))
        ELSE SubSeq(s, p, Least(M) - 1) \o sub_triple(s, Least(M)).out
                 \o SubTripleFrom(s, sub_triple(s, Least(M)).end + 1)

\* re.sub(double_pattern, r"[\1, \2]", s)
re_sub_double(s) == SubDoubleFrom(s, 1)

\* re.sub(triple_pattern, r"[\1, \2, \3]", s)
re_sub_triple(s) == SubTripleFrom(s, 1)

\* The compaction pass.
Compact(s) == re_sub_triple(re_sub_double(s))

InitText ==
    /\ pc = "dumps"
    /\ err = ""
    /\ objects = <<>>
    /\ written = {}
    /\ InitParseIdle
    /\ location = NoVec /\ camera_quat = NoVec
    /\ origin = NoVec /\ look_at = NoVec /\ up = NoVec
    /\ meshes = <<>> /\ meshIdx = 0
    /\ disk = {} /\ output_name = "" /\ output_filename = "" /\ i = 0
    /\ overwrote = FALSE
    /\ scene_dict \in Docs
    /\ scene_string = <<>>

\* scene_string = json.dumps(scene_dict, indent=4)
Dumps ==
    /\ pc = "dumps"
    /\ scene_string' = json_dumps(scene_dict)
    /\ pc' = "double"
    /\ UNCHANGED <<err, objects, written, parseVars, camVars, asmVars, outVars, scene_dict>>

\* scene_string = re.sub(double_pattern, r"[\1, \2]", scene_string)
SubDouble ==
    /\ pc = "double"
    /\ scene_string' = re_sub_double(scene_string)
    /\ pc' = "triple"
    /\ UNCHANGED <<err, objects, written, parseVars, camVars, asmVars, outVars, scene_dict>>

\* scene_string = re.sub(triple_pattern, r"[\1, \2, \3]", scene_string)
SubTriple ==
    /\ pc = "triple"
    /\ scene_string' = re_sub_triple(scene_string)
    /\ pc' = "compacted"
    /\ UNCHANGED <<err, objects, written, parseVars, camVars, asmVars, outVars, scene_dict>>

NextText == Dumps \/ SubDouble \/ SubTriple

SpecText == InitText /\ [][NextText]_vars

\* C6 (as stated): after the compaction pass every list of 2 or 3 numbers is
\* on one line as "[a, b]" or "[a, b, c]" with the number texts unchanged,
\* and the rest of the text is as json.dumps printed it.
C6_VectorsOnOneLine ==
    pc = "compacted" => scene_string = DumpDoc(scene_dict, TRUE)

\* C7: the compaction pass applied to its own output changes nothing.
C7_CompactionIdempotent ==
    pc = "compacted" => Compact(scene_string) = scene_string

\* C7 witness: a compacted text in which the pass put one list on one line
\* and left another list spread over several lines.
C7_Witness ==
    /\ pc = "compacted"
    /\ scene_string # json_dumps(scene_dict)
    /\ scene_string # DumpDoc(scene_dict, TRUE)

====
